---- MODULE Spec2Model ----
(***************************************************************************)
(* A model of ams::fssystem::BucketTree (fssystem_bucket_tree.hpp): the    *)
(* static geometry functions, NodeBuffer, ContinuousReadingInfo, the tree  *)
(* object and its Visitor.  Member functions that the header only declares *)
(* (Initialize, Finalize, Find, MoveNext, MovePrevious) follow the         *)
(* behaviour the specification document gives for them.                    *)
(***************************************************************************)
EXTENDS Integers, Sequences, FiniteSets, TLC

VARIABLES
    geom,        \* inputs and result of one storage-size query
    info,        \* a ContinuousReadingInfo and its caller's call counter
    bufs,        \* two NodeBuffer objects
    heap,        \* the allocators' blocks and the Deallocate calls that hit no block
    storage,     \* what the node storage and the entry storage hold
    tree,        \* the BucketTree object
    visitor,     \* the BucketTree::Visitor object
    trav,        \* the counters of a caller's traversal loop
    assertFailed,\* an AMS_ASSERT of a destructor did not hold
    lastOp,      \* the operation that ran last, with its arguments
    lastResult   \* what it returned

vars == <<geom, info, bufs, heap, storage, tree, visitor, trav, assertFailed, lastOp, lastResult>>

----------------------------------------------------------------------------
(* Bounds of the model. *)

MaxGeomEntries == 400      \* entry_count of a storage-size query runs over 0..MaxGeomEntries
MaxSkip == 4               \* SetSkipCount(0..MaxSkip)
MaxCalls == 7              \* CheckNeedScan calls after one SetSkipCount / Reset
MaxReadSize == 2           \* SetReadSize(0..MaxReadSize)
MaxBufAllocs == 2          \* allocations in a NodeBuffer run
MaxAllocs == 3             \* allocations in a tree run
MaxEmptyEnd == 3           \* end_offset of the degenerate Initialize runs over 0..MaxEmptyEnd
SingleLeafEntries == 10    \* entry_count of the single-leaf storage
NoL2Entries == 5           \* entry_count of the several-leaves storage (2 entries a leaf)
WithL2Entries == 252       \* entry_count of the storage with an L2 tier (1 entry a leaf)

----------------------------------------------------------------------------
(* Program constants. *)

NodeSizeMin == 1024
NodeSizeMax == 524288
SizeofNodeHeader == 16
SizeofS64 == 8

\* nullptr, and the two kinds of address the model tells apart.
Null == <<"null", 0>>
HeapPtr(id) == <<"heap", id>>
AllocatorPtr(id) == <<"allocator", id>>
Allocators == {AllocatorPtr(1), AllocatorPtr(2)}

----------------------------------------------------------------------------
(* Geometry: the static constexpr functions. *)

DivideUp(x, y) == (x + (y - 1)) \div y

IsPowerOfTwo(x) == x > 0 /\ \E k \in 0..30 : x = 2^k

GetEntryCount(node_size, entry_size) == (node_size - SizeofNodeHeader) \div entry_size

GetOffsetCount(node_size) == (node_size - SizeofNodeHeader) \div SizeofS64

GetEntrySetCount(node_size, entry_size, entry_count) ==
    DivideUp(entry_count, GetEntryCount(node_size, entry_size))

\* What GetNodeL2Count yields when AMS_ABORT_UNLESS(node_l2_count <= offset_count_per_node) fires.
Aborted == -1

\* GetNodeL2Count without the slack of the L1 node: every entry set behind an L2 node.
GetNodeL2CountNoSlack(node_size, entry_size, entry_count) ==
    LET offset_count_per_node == GetOffsetCount(node_size)
        entry_set_count == GetEntrySetCount(node_size, entry_size, entry_count)
        node_l2_count == DivideUp(entry_set_count, offset_count_per_node)
    IN  IF entry_set_count <= offset_count_per_node THEN 0
        ELSE IF ~(node_l2_count <= offset_count_per_node) THEN Aborted
        ELSE node_l2_count

\* GetNodeL2Count taking the whole L1 node as slack.
GetNodeL2CountWrongSlack(node_size, entry_size, entry_count) ==
    LET offset_count_per_node == GetOffsetCount(node_size)
        entry_set_count == GetEntrySetCount(node_size, entry_size, entry_count)
        node_l2_count == DivideUp(entry_set_count, offset_count_per_node)
    IN  IF entry_set_count <= offset_count_per_node THEN 0
        ELSE IF ~(node_l2_count <= offset_count_per_node) THEN Aborted
        ELSE DivideUp(entry_set_count - offset_count_per_node, offset_count_per_node)

GetNodeL2Count(node_size, entry_size, entry_count) ==
    LET offset_count_per_node == GetOffsetCount(node_size)
        entry_set_count == GetEntrySetCount(node_size, entry_size, entry_count)
        node_l2_count == DivideUp(entry_set_count, offset_count_per_node)
    IN  IF entry_set_count <= offset_count_per_node THEN 0
        ELSE IF ~(node_l2_count <= offset_count_per_node) THEN Aborted
        ELSE DivideUp(entry_set_count - (offset_count_per_node - (node_l2_count - 1)),
                      offset_count_per_node)

QueryPreconditions(node_size, entry_size, entry_count) ==
    /\ entry_size >= SizeofS64
    /\ node_size >= entry_size + SizeofNodeHeader
    /\ NodeSizeMin <= node_size /\ node_size <= NodeSizeMax
    /\ IsPowerOfTwo(node_size)
    /\ entry_count >= 0

QueryNodeStorageSize(node_size, entry_size, entry_count) ==
    IF entry_count <= 0 THEN 0
    ELSE LET l2 == GetNodeL2Count(node_size, entry_size, entry_count)
         IN  IF l2 = Aborted THEN Aborted ELSE (1 + l2) * node_size

QueryEntryStorageSize(node_size, entry_size, entry_count) ==
    IF entry_count <= 0 THEN 0
    ELSE GetEntrySetCount(node_size, entry_size, entry_count) * node_size

\* The members of BucketTree that read the geometry (t is a tree object).
IsInitialized(t) == t.node_size > 0
IsEmptyByNodeSize(t) == t.node_size = 0
IsEmpty(t) == t.entry_size = 0
IsExistL2(t) == t.offset_count < t.entry_set_count
IsExistOffsetL2OnL1(t) == IsExistL2(t) /\ t.l1.count < t.offset_count
\* GetEntrySetIndex without the slack of the L1 node.
GetEntrySetIndexNoSlack(t, node_index, offset_index) ==
    (t.offset_count * node_index) + offset_index
GetEntrySetIndex(t, node_index, offset_index) ==
    (t.offset_count - t.l1.count) + (t.offset_count * node_index) + offset_index
Includes(t, offset) == t.start_offset <= offset /\ offset < t.end_offset

----------------------------------------------------------------------------
(* The allocator (MemoryResource): blocks are numbered in the order they   *)
(* are handed out; frees counts the Deallocate calls a block received; bad *)
(* collects the Deallocate calls that name no block, or name one through   *)
(* another allocator or with another size.                                 *)

HeapInit == [next |-> 1, blocks |-> <<>>, bad |-> {}]

Allocate(h, allocator, size) ==
    [h EXCEPT !.next = @ + 1,
              !.blocks = Append(@, [allocator |-> allocator, size |-> size, frees |-> 0])]

Deallocate(h, allocator, ptr, size) ==
    LET call == [allocator |-> allocator, ptr |-> ptr, size |-> size]
    IN  IF ptr[1] = "heap" /\ ptr[2] \in 1..Len(h.blocks)
        THEN LET blk == h.blocks[ptr[2]]
             IN  [h EXCEPT !.blocks[ptr[2]].frees = @ + 1,
                           !.bad = IF blk.allocator = allocator /\ blk.size = size
                                   THEN @ ELSE @ \cup {call}]
        ELSE [h EXCEPT !.bad = @ \cup {call}]

----------------------------------------------------------------------------
(* NodeBuffer. *)

NodeBufferInit == [allocator |-> Null, header |-> Null]

\* NodeBuffer(NodeBuffer &&rhs): what the new object and rhs hold afterwards.
NodeBufferMoveConstruct(rhs) ==
    [this |-> [allocator |-> rhs.allocator, header |-> rhs.allocator],
     rhs  |-> [allocator |-> Null, header |-> Null]]

\* operator=(NodeBuffer &&rhs), for this != &rhs.
NodeBufferMoveAssign(this, rhs) ==
    [this |-> [allocator |-> rhs.allocator, header |-> rhs.header],
     rhs  |-> [allocator |-> Null, header |-> Null]]

\* Allocate(allocator, node_size); ok tells whether the allocator had memory.
NodeBufferAllocate(b, h, allocator, node_size, ok) ==
    IF ok
    THEN [buf  |-> [allocator |-> allocator, header |-> HeapPtr(h.next)],
          heap |-> Allocate(h, allocator, node_size),
          ret  |-> TRUE]
    ELSE [buf |-> [allocator |-> allocator, header |-> Null], heap |-> h, ret |-> FALSE]

\* Free that leaves m_header set.
NodeBufferFreeKeepsHeader(b, h, node_size) ==
    IF b.header # Null
    THEN [buf  |-> [allocator |-> Null, header |-> b.header],
          heap |-> Deallocate(h, b.allocator, b.header, node_size)]
    ELSE [buf |-> [allocator |-> Null, header |-> b.header], heap |-> h]

NodeBufferFree(b, h, node_size) ==
    IF b.header # Null
    THEN [buf  |-> [allocator |-> Null, header |-> Null],
          heap |-> Deallocate(h, b.allocator, b.header, node_size)]
    ELSE [buf |-> [allocator |-> Null, header |-> b.header], heap |-> h]

----------------------------------------------------------------------------
(* ContinuousReadingInfo. *)

InfoInit == [read_size |-> 0, skip_count |-> 0, done |-> FALSE]
Reset(m) == [read_size |-> 0, skip_count |-> 0, done |-> FALSE]
SetSkipCount(m, count) == [m EXCEPT !.skip_count = count]
\* return (m_skip_count--) <= 0
CheckNeedScanPostDecrement(m) ==
    [m |-> [m EXCEPT !.skip_count = @ - 1], ret |-> (m.skip_count <= 0)]
\* return (--m_skip_count) <= 0
CheckNeedScan(m) ==
    [m |-> [m EXCEPT !.skip_count = @ - 1], ret |-> ((m.skip_count - 1) <= 0)]
Done(m) == [m EXCEPT !.read_size = 0, !.done = TRUE]
SetReadSize(m, size) == [m EXCEPT !.read_size = size]

----------------------------------------------------------------------------
(* The persisted tree.  A storage is a well-formed image: entry k starts   *)
(* at EntryStart(s, k), starts increase strictly, leaves are filled in     *)
(* order, and the L1 node holds the keys of the L2 nodes first and, in its *)
(* slack, the keys of the first entry sets.                                *)

Min(a, b) == IF a < b THEN a ELSE b

\* An image and the geometry its nodes were laid out with.
Image(node_size, entry_size, entry_count, base) ==
    [node_size |-> node_size, entry_size |-> entry_size, entry_count |-> entry_count,
     base |-> base,
     entries_per_set |-> GetEntryCount(node_size, entry_size),
     entry_set_count |-> GetEntrySetCount(node_size, entry_size, entry_count),
     offset_count    |-> GetOffsetCount(node_size),
     l2_count        |-> GetNodeL2Count(node_size, entry_size, entry_count)]

Storages ==
    { Image(NodeSizeMin, 16, SingleLeafEntries, 0),
      Image(NodeSizeMin, 504, NoL2Entries, 3),
      Image(NodeSizeMin, 1008, WithL2Entries, 0) }

SmallStorages == { s \in Storages : s.entry_size < 1008 }

\* Gaps between consecutive starts alternate between 1 and 2.
EntryStart(s, k) == s.base + k + (k \div 2)

StorageEntriesPerSet(s) == s.entries_per_set
StorageEntrySetCount(s) == s.entry_set_count
StorageOffsetCount(s) == s.offset_count
StorageL2Count(s) == s.l2_count
StorageInlineCount(s) == s.offset_count - s.l2_count

\* The header of leaf i, as Visitor::EntrySetHeader::Info.
EntrySetInfo(s, i) ==
    [index |-> i,
     count |-> Min(StorageEntriesPerSet(s), s.entry_count - i * StorageEntriesPerSet(s)),
     end   |-> EntryStart(s, Min((i + 1) * StorageEntriesPerSet(s), s.entry_count)),
     start |-> EntryStart(s, i * StorageEntriesPerSet(s))]

EntrySetStart(s, i) == EntryStart(s, i * StorageEntriesPerSet(s))

\* The L1 node: its header, and the s64 at slot i of its array.
NodeL1Header(s) ==
    [index  |-> 0,
     count  |-> IF StorageEntrySetCount(s) > StorageOffsetCount(s)
                THEN StorageL2Count(s) ELSE StorageEntrySetCount(s),
     offset |-> EntryStart(s, 0)]

NodeL1Slot(s, i) ==
    IF StorageEntrySetCount(s) <= StorageOffsetCount(s) THEN EntrySetStart(s, i)
    ELSE IF i < StorageL2Count(s)
         THEN EntrySetStart(s, StorageInlineCount(s) + StorageOffsetCount(s) * i)
         ELSE EntrySetStart(s, i - StorageL2Count(s))

\* L2 node j: its count, and the s64 at slot i of its array.
NodeL2Count(s, j) ==
    Min(StorageOffsetCount(s),
        StorageEntrySetCount(s) - StorageInlineCount(s) - StorageOffsetCount(s) * j)

NodeL2Slot(s, j, i) == EntrySetStart(s, StorageInlineCount(s) + StorageOffsetCount(s) * j + i)

\* The key at position i of one of the sorted ranges a lookup searches.
KeyAt(s, range, i) ==
    CASE range.kind = "l1"     -> NodeL1Slot(s, i)
      [] range.kind = "inline" -> NodeL1Slot(s, range.first + i)
      [] range.kind = "l2"     -> NodeL2Slot(s, range.node, i)
      [] range.kind = "entry"  -> EntryStart(s, range.set * StorageEntriesPerSet(s) + i)

\* std::upper_bound over positions [first, first + count) of a range: the first
\* position whose key is greater than va.
RECURSIVE UpperBound(_, _, _, _, _)
UpperBound(s, range, first, count, va) ==
    IF count <= 0 THEN first
    ELSE LET step == count \div 2
             mid  == first + step
         IN  IF ~(va < KeyAt(s, range, mid))
             THEN UpperBound(s, range, mid + 1, count - (step + 1), va)
             ELSE UpperBound(s, range, first, step, va)

----------------------------------------------------------------------------
(* BucketTree. *)

NodeHeaderZero == [index |-> 0, count |-> 0, offset |-> 0]

\* BucketTree(): every member value-initialized.  l1 is the NodeHeader at the
\* front of the m_node_l1 buffer.
TreeInit ==
    [alive |-> TRUE, node_l1 |-> NodeBufferInit, l1 |-> NodeHeaderZero,
     node_size |-> 0, entry_size |-> 0, entry_count |-> 0, offset_count |-> 0,
     entry_set_count |-> 0, start_offset |-> 0, end_offset |-> 0]

GetAllocator(t) == t.node_l1.allocator

\* Initialize(allocator, node_storage, entry_storage, node_size, entry_size, entry_count)
\* on the image s.
Initialize(t, h, s, allocator, ok) ==
    LET a == NodeBufferAllocate(t.node_l1, h, allocator, s.node_size, ok)
    IN  IF ~a.ret
        THEN [tree |-> [t EXCEPT !.node_l1 = a.buf], heap |-> a.heap, result |-> "OutOfMemory"]
        ELSE [tree |-> [t EXCEPT !.node_l1 = a.buf,
                                 !.l1 = NodeL1Header(s),
                                 !.node_size = s.node_size,
                                 !.entry_size = s.entry_size,
                                 !.entry_count = s.entry_count,
                                 !.offset_count = GetOffsetCount(s.node_size),
                                 !.entry_set_count =
                                     GetEntrySetCount(s.node_size, s.entry_size, s.entry_count),
                                 !.start_offset = NodeL1Header(s).offset,
                                 !.end_offset = EntrySetInfo(s, StorageEntrySetCount(s) - 1).end],
              heap |-> a.heap, result |-> "Success"]

\* Initialize(node_size, end_offset): the empty tree.
InitializeEmpty(t, node_size, end_offset) ==
    [t EXCEPT !.node_size = node_size, !.end_offset = end_offset]

Finalize(t, h) ==
    LET f == NodeBufferFree(t.node_l1, h, t.node_size)
    IN  [tree |-> [t EXCEPT !.node_l1 = f.buf, !.l1 = NodeHeaderZero,
                            !.node_size = 0, !.entry_size = 0, !.entry_count = 0,
                            !.offset_count = 0, !.entry_set_count = 0,
                            !.start_offset = 0, !.end_offset = 0],
         heap |-> f.heap]

----------------------------------------------------------------------------
(* BucketTree::Visitor. *)

EntrySetHeaderZero == [index |-> 0, count |-> 0, end |-> 0, start |-> 0]

\* constexpr Visitor(); bound tells whether m_tree points at the tree.
VisitorInit ==
    [alive |-> TRUE, bound |-> FALSE, entry |-> Null, entry_index |-> -1,
     entry_set_count |-> 0, entry_set |-> EntrySetHeaderZero]

IsValidFromMinusOne(v) == v.entry_index >= -1
IsValid(v) == v.entry_index >= 0

\* CanMoveNext that takes the last entry set for the end.
CanMoveNextStopsEarly(v) ==
    IsValid(v) /\ (v.entry_index + 1 < v.entry_set.count
                   \/ v.entry_set.index + 1 < v.entry_set_count - 1)
CanMoveNext(v) ==
    IsValid(v) /\ (v.entry_index + 1 < v.entry_set.count
                   \/ v.entry_set.index + 1 < v.entry_set_count)
CanMovePrevious(v) == IsValid(v) /\ (v.entry_index > 0 \/ v.entry_set.index > 0)

\* Visitor::Initialize(tree): the entry buffer is allocated on first use.
VisitorInitialize(v, t, h) ==
    IF v.entry = Null
    THEN [visitor |-> [v EXCEPT !.entry = HeapPtr(h.next), !.bound = TRUE],
          heap |-> Allocate(h, GetAllocator(t), t.entry_size)]
    ELSE [visitor |-> v, heap |-> h]

\* The index of the entry set that holds va: the L1 search, then the L2 search.
FindEntrySetIndex(t, s, va) ==
    IF IsExistOffsetL2OnL1(t) /\ va < NodeL1Slot(s, 0)
    THEN UpperBound(s, [kind |-> "inline", first |-> t.l1.count],
                    0, t.offset_count - t.l1.count, va) - 1
    ELSE LET pos == UpperBound(s, [kind |-> "l1"], 0, t.l1.count, va) - 1
         IN  IF IsExistL2(t)
             THEN GetEntrySetIndex(t, pos,
                      UpperBound(s, [kind |-> "l2", node |-> pos], 0, NodeL2Count(s, pos), va) - 1)
             ELSE pos

\* Visitor::Find(va) on the image s.
VisitorFind(v, t, s, va) ==
    IF ~Includes(t, va) THEN [visitor |-> v, result |-> "OutOfRange"]
    ELSE LET set  == FindEntrySetIndex(t, s, va)
             info_ == EntrySetInfo(s, set)
             idx  == UpperBound(s, [kind |-> "entry", set |-> set], 0, info_.count, va) - 1
         IN  [visitor |-> [v EXCEPT !.entry_set = info_, !.entry_index = idx,
                                    !.entry_set_count = t.entry_set_count],
              result |-> "Success"]

\* BucketTree::Find(visitor, va).
Find(t, v, h, s, va) ==
    IF IsEmpty(t) THEN [visitor |-> v, heap |-> h, result |-> "OutOfRange"]
    ELSE LET i == VisitorInitialize(v, t, h)
             f == VisitorFind(i.visitor, t, s, va)
         IN  [visitor |-> f.visitor, heap |-> i.heap, result |-> f.result]

MoveNext(v, s) ==
    IF ~IsValid(v) THEN [visitor |-> v, result |-> "OutOfRange"]
    ELSE IF v.entry_index + 1 < v.entry_set.count
    THEN [visitor |-> [v EXCEPT !.entry_index = @ + 1], result |-> "Success"]
    ELSE IF v.entry_set.index + 1 < v.entry_set_count
    THEN [visitor |-> [v EXCEPT !.entry_set = EntrySetInfo(s, v.entry_set.index + 1),
                                !.entry_index = 0],
          result |-> "Success"]
    ELSE [visitor |-> v, result |-> "OutOfRange"]

MovePrevious(v, s) ==
    IF ~IsValid(v) THEN [visitor |-> v, result |-> "OutOfRange"]
    ELSE IF v.entry_index > 0
    THEN [visitor |-> [v EXCEPT !.entry_index = @ - 1], result |-> "Success"]
    ELSE IF v.entry_set.index > 0
    THEN [visitor |-> [v EXCEPT !.entry_set = EntrySetInfo(s, v.entry_set.index - 1),
                                !.entry_index = EntrySetInfo(s, v.entry_set.index - 1).count - 1],
          result |-> "Success"]
    ELSE [visitor |-> v, result |-> "OutOfRange"]

\* The allocator and the size ~Visitor passes to Deallocate.  It reads both through
\* m_tree; when the tree object is gone the read is of a dangling pointer and may
\* yield anything.
VisitorReleaseArguments(t, s) ==
    IF t.alive THEN {[allocator |-> GetAllocator(t), size |-> t.entry_size]}
    ELSE [allocator : Allocators \cup {Null}, size : {0, s.entry_size}]

\* ~Visitor(), with the arguments it read.
VisitorDestroyed(v, h, args) ==
    IF v.entry # Null
    THEN [visitor |-> [v EXCEPT !.alive = FALSE, !.bound = FALSE, !.entry = Null],
          heap |-> Deallocate(h, args.allocator, v.entry, args.size)]
    ELSE [visitor |-> [v EXCEPT !.alive = FALSE], heap |-> h]

\* The entry the visitor is on, counted from the first entry of the tree, and the
\* first 8 bytes of the entry in its buffer.
EntryNumber(v, s) == v.entry_set.index * StorageEntriesPerSet(s) + v.entry_index
EntryOffset(v, s) == EntryStart(s, EntryNumber(v, s))

----------------------------------------------------------------------------
(* States of the parts a specification leaves alone. *)

GeomIdle == [node_size |-> NodeSizeMin, entry_size |-> SizeofS64, entry_count |-> 0,
             queried |-> "none", result |-> 0]
InfoIdle == [m |-> InfoInit, n |-> 0, calls |-> 0]
BufsIdle == [a |-> [live |-> TRUE, nb |-> NodeBufferInit],
             b |-> [live |-> FALSE, nb |-> NodeBufferInit]]
TravIdle == [active |-> FALSE, visited |-> 0]
StorageIdle == CHOOSE s \in Storages : s.entry_size = 16
NoOp == [op |-> "None"]

----------------------------------------------------------------------------
(* The storage-size queries, applied to inputs that meet their assertions. *)

GeomNodeSizes == {NodeSizeMin, 2 * NodeSizeMin}
GeomEntrySizes == {8, 16, 504, 1008, 2032}
\* 0..MaxGeomEntries, the entry_count of the two-tier scenario, and the counts around
\* the largest tree a node size of 1 KiB and one entry a leaf allow (126 * 126 leaves).
GeomEntryCounts == (0..MaxGeomEntries) \cup {10000, 15876, 15877}

InitGeom ==
    /\ geom \in { g \in [node_size : GeomNodeSizes, entry_size : GeomEntrySizes,
                         entry_count : GeomEntryCounts, queried : {"none"}, result : {0}] :
                  QueryPreconditions(g.node_size, g.entry_size, g.entry_count) }
    /\ info = InfoIdle /\ bufs = BufsIdle /\ heap = HeapInit /\ storage = StorageIdle
    /\ tree = TreeInit /\ visitor = VisitorInit /\ trav = TravIdle
    /\ assertFailed = FALSE /\ lastOp = NoOp /\ lastResult = "None"

GeomQueryNode ==
    /\ geom' = [geom EXCEPT !.queried = "node",
                            !.result = QueryNodeStorageSize(geom.node_size, geom.entry_size,
                                                            geom.entry_count)]
    /\ lastOp' = [op |-> "QueryNodeStorageSize"]
    /\ UNCHANGED <<info, bufs, heap, storage, tree, visitor, trav, assertFailed, lastResult>>

GeomQueryEntry ==
    /\ geom' = [geom EXCEPT !.queried = "entry",
                            !.result = QueryEntryStorageSize(geom.node_size, geom.entry_size,
                                                             geom.entry_count)]
    /\ lastOp' = [op |-> "QueryEntryStorageSize"]
    /\ UNCHANGED <<info, bufs, heap, storage, tree, visitor, trav, assertFailed, lastResult>>

NextGeom == GeomQueryNode \/ GeomQueryEntry

SpecGeom == InitGeom /\ [][NextGeom]_vars

----------------------------------------------------------------------------
(* A ContinuousReadingInfo and its caller.  info.n is the count of the last *)
(* SetSkipCount (0 after the constructor and after Reset), info.calls the   *)
(* CheckNeedScan calls made since.                                          *)

InitInfo ==
    /\ info = InfoIdle
    /\ geom = GeomIdle /\ bufs = BufsIdle /\ heap = HeapInit /\ storage = StorageIdle
    /\ tree = TreeInit /\ visitor = VisitorInit /\ trav = TravIdle
    /\ assertFailed = FALSE /\ lastOp = NoOp /\ lastResult = "None"

InfoUnchanged == UNCHANGED <<geom, bufs, heap, storage, tree, visitor, trav, assertFailed>>

InfoReset ==
    /\ info' = [m |-> Reset(info.m), n |-> 0, calls |-> 0]
    /\ lastOp' = [op |-> "Reset"] /\ lastResult' = "None"
    /\ InfoUnchanged

InfoSetSkipCount ==
    \E count \in 0..MaxSkip :
        /\ info' = [m |-> SetSkipCount(info.m, count), n |-> count, calls |-> 0]
        /\ lastOp' = [op |-> "SetSkipCount"] /\ lastResult' = "None"
        /\ InfoUnchanged

InfoCheckNeedScan ==
    /\ info.calls < MaxCalls
    /\ info' = [info EXCEPT !.m = CheckNeedScan(info.m).m, !.calls = @ + 1]
    /\ lastOp' = [op |-> "CheckNeedScan"] /\ lastResult' = CheckNeedScan(info.m).ret
    /\ InfoUnchanged

InfoDone ==
    /\ info' = [info EXCEPT !.m = Done(info.m)]
    /\ lastOp' = [op |-> "Done"] /\ lastResult' = "None"
    /\ InfoUnchanged

InfoSetReadSize ==
    \E size \in 0..MaxReadSize :
        /\ info' = [info EXCEPT !.m = SetReadSize(info.m, size)]
        /\ lastOp' = [op |-> "SetReadSize"] /\ lastResult' = "None"
        /\ InfoUnchanged

NextInfo == InfoReset \/ InfoSetSkipCount \/ InfoCheckNeedScan \/ InfoDone \/ InfoSetReadSize

SpecInfo == InitInfo /\ [][NextInfo]_vars

----------------------------------------------------------------------------
(* Two NodeBuffer objects and a caller that keeps to the assertions of the *)
(* class: it allocates into, assigns to and destroys only empty buffers.   *)

Names == {"a", "b"}

InitBuf ==
    /\ bufs = BufsIdle /\ heap = HeapInit
    /\ geom = GeomIdle /\ info = InfoIdle /\ storage = StorageIdle
    /\ tree = TreeInit /\ visitor = VisitorInit /\ trav = TravIdle
    /\ assertFailed = FALSE /\ lastOp = NoOp /\ lastResult = "None"

BufUnchanged == UNCHANGED <<geom, info, storage, tree, visitor, trav, assertFailed>>

BufConstruct ==
    \E x \in Names :
        /\ ~bufs[x].live
        /\ bufs' = [bufs EXCEPT ![x] = [live |-> TRUE, nb |-> NodeBufferInit]]
        /\ lastOp' = [op |-> "Construct", this |-> x] /\ lastResult' = "None"
        /\ UNCHANGED heap /\ BufUnchanged

BufAllocate ==
    \E x \in Names, allocator \in Allocators, ok \in BOOLEAN :
        /\ bufs[x].live /\ bufs[x].nb.header = Null
        /\ heap.next <= MaxBufAllocs
        /\ LET a == NodeBufferAllocate(bufs[x].nb, heap, allocator, NodeSizeMin, ok)
           IN  /\ bufs' = [bufs EXCEPT ![x].nb = a.buf]
               /\ heap' = a.heap
               /\ lastResult' = a.ret
        /\ lastOp' = [op |-> "Allocate", this |-> x]
        /\ BufUnchanged

BufMoveConstruct ==
    \E x \in Names, y \in Names :
        /\ x # y /\ ~bufs[x].live /\ bufs[y].live
        /\ LET m == NodeBufferMoveConstruct(bufs[y].nb)
           IN  bufs' = [bufs EXCEPT ![x] = [live |-> TRUE, nb |-> m.this], ![y].nb = m.rhs]
        /\ lastOp' = [op |-> "MoveConstruct", this |-> x, rhs |-> y] /\ lastResult' = "None"
        /\ UNCHANGED heap /\ BufUnchanged

BufMoveAssign ==
    \E x \in Names, y \in Names :
        /\ bufs[x].live /\ bufs[y].live
        /\ x # y => bufs[x].nb.header = Null
        /\ LET m == NodeBufferMoveAssign(bufs[x].nb, bufs[y].nb)
           IN  bufs' = IF x = y THEN bufs
                       ELSE [bufs EXCEPT ![x].nb = m.this, ![y].nb = m.rhs]
        /\ lastOp' = [op |-> "MoveAssign", this |-> x, rhs |-> y] /\ lastResult' = "None"
        /\ UNCHANGED heap /\ BufUnchanged

BufFree ==
    \E x \in Names :
        /\ bufs[x].live
        /\ LET f == NodeBufferFree(bufs[x].nb, heap, NodeSizeMin)
           IN  /\ bufs' = [bufs EXCEPT ![x].nb = f.buf]
               /\ heap' = f.heap
        /\ lastOp' = [op |-> "Free", this |-> x] /\ lastResult' = "None"
        /\ BufUnchanged

BufDestroy ==
    \E x \in Names :
        /\ bufs[x].live /\ bufs[x].nb.header = Null
        /\ bufs' = [bufs EXCEPT ![x].live = FALSE]
        /\ lastOp' = [op |-> "Destroy", this |-> x] /\ lastResult' = "None"
        /\ UNCHANGED heap /\ BufUnchanged

NextBuf ==
    BufConstruct \/ BufAllocate \/ BufMoveConstruct \/ BufMoveAssign \/ BufFree \/ BufDestroy

SpecBuf == InitBuf /\ [][NextBuf]_vars

----------------------------------------------------------------------------
(* A tree, a visitor and their caller.  The caller keeps to the            *)
(* assertions of the member functions: it initializes only a tree that is  *)
(* not initialized and looks up only in an initialized one.                *)

TreeIdle == UNCHANGED <<geom, info, bufs, storage, trav>>

\* The addresses a caller looks up: the covered range and one address either side.
FindAddresses(t) == (t.start_offset - 1)..(t.end_offset + 1)

TreeConstruct ==
    /\ ~tree.alive
    /\ tree' = TreeInit
    /\ lastOp' = [op |-> "TreeConstruct"] /\ lastResult' = "None"
    /\ UNCHANGED <<heap, visitor, assertFailed>> /\ TreeIdle

TreeInitialize ==
    \E allocator \in Allocators, ok \in BOOLEAN :
        /\ tree.alive /\ ~IsInitialized(tree)
        /\ heap.next <= MaxAllocs
        /\ \E i \in {Initialize(tree, heap, storage, allocator, ok)} :
               tree' = i.tree /\ heap' = i.heap /\ lastResult' = i.result
        /\ lastOp' = [op |-> "Initialize"]
        /\ UNCHANGED <<visitor, assertFailed>> /\ TreeIdle

TreeInitializeEmpty ==
    \E end_offset \in 0..MaxEmptyEnd :
        /\ tree.alive /\ ~IsInitialized(tree)
        /\ tree' = InitializeEmpty(tree, storage.node_size, end_offset)
        /\ lastOp' = [op |-> "InitializeEmpty"] /\ lastResult' = "None"
        /\ UNCHANGED <<heap, visitor, assertFailed>> /\ TreeIdle

TreeFinalize ==
    /\ tree.alive
    /\ \E f \in {Finalize(tree, heap)} : tree' = f.tree /\ heap' = f.heap
    /\ lastOp' = [op |-> "Finalize", initialized |-> IsInitialized(tree)]
    /\ lastResult' = "None"
    /\ UNCHANGED <<visitor, assertFailed>> /\ TreeIdle

\* ~BucketTree(): Finalize(), then ~NodeBuffer() of m_node_l1 and its assertion.
TreeDestroy ==
    /\ tree.alive
    /\ LET f == Finalize(tree, heap)
       IN  /\ tree' = [f.tree EXCEPT !.alive = FALSE]
           /\ heap' = f.heap
           /\ assertFailed' = (assertFailed \/ f.tree.node_l1.header # Null)
    /\ lastOp' = [op |-> "TreeDestroy", initialized |-> IsInitialized(tree)]
    /\ lastResult' = "None"
    /\ UNCHANGED visitor /\ TreeIdle

TreeFind ==
    \E va \in FindAddresses(tree) :
        /\ tree.alive /\ IsInitialized(tree) /\ visitor.alive
        /\ (visitor.entry = Null /\ ~IsEmpty(tree)) => heap.next <= MaxAllocs
        /\ \E f \in {Find(tree, visitor, heap, storage, va)} :
               visitor' = f.visitor /\ heap' = f.heap /\ lastResult' = f.result
        /\ lastOp' = [op |-> "Find", va |-> va]
        /\ UNCHANGED <<tree, assertFailed>> /\ TreeIdle

\* A move reads the next entry, or the next entry set, through m_tree.
CanRead == IsValid(visitor) => (tree.alive /\ IsInitialized(tree) /\ ~IsEmpty(tree))

VisitorMoveNext ==
    /\ visitor.alive /\ CanRead
    /\ \E m \in {MoveNext(visitor, storage)} : visitor' = m.visitor /\ lastResult' = m.result
    /\ lastOp' = [op |-> "MoveNext"]
    /\ UNCHANGED <<tree, heap, assertFailed>> /\ TreeIdle

VisitorMovePrevious ==
    /\ visitor.alive /\ CanRead
    /\ \E m \in {MovePrevious(visitor, storage)} : visitor' = m.visitor /\ lastResult' = m.result
    /\ lastOp' = [op |-> "MovePrevious"]
    /\ UNCHANGED <<tree, heap, assertFailed>> /\ TreeIdle

VisitorDestroy ==
    \E args \in VisitorReleaseArguments(tree, storage) :
        /\ visitor.alive
        /\ LET d == VisitorDestroyed(visitor, heap, args)
           IN  visitor' = d.visitor /\ heap' = d.heap
        /\ lastOp' = [op |-> "VisitorDestroy", entry |-> visitor.entry]
        /\ lastResult' = "None"
        /\ UNCHANGED <<tree, assertFailed>> /\ TreeIdle

VisitorConstruct ==
    /\ ~visitor.alive
    /\ visitor' = VisitorInit
    /\ lastOp' = [op |-> "VisitorConstruct"] /\ lastResult' = "None"
    /\ UNCHANGED <<tree, heap, assertFailed>> /\ TreeIdle

InitTree(images) ==
    /\ storage \in images
    /\ tree = TreeInit /\ visitor = VisitorInit /\ heap = HeapInit
    /\ geom = GeomIdle /\ info = InfoIdle /\ bufs = BufsIdle /\ trav = TravIdle
    /\ assertFailed = FALSE /\ lastOp = NoOp /\ lastResult = "None"

\* The whole life of the two objects, over the images without an L2 tier.
Init == InitTree(SmallStorages)

Next ==
    \/ TreeConstruct \/ TreeInitialize \/ TreeInitializeEmpty \/ TreeFinalize \/ TreeDestroy
    \/ TreeFind \/ VisitorMoveNext \/ VisitorMovePrevious
    \/ VisitorDestroy \/ VisitorConstruct

Spec == Init /\ [][Next]_vars

\* Lookups and moves on a tree that stays initialized, over every image.
InitFind == InitTree(Storages)

NextFind == TreeInitialize \/ TreeFind \/ VisitorMoveNext \/ VisitorMovePrevious

SpecFind == InitFind /\ [][NextFind]_vars

----------------------------------------------------------------------------
(* The traversal loop of a caller:                                         *)
(*   Find(&visitor, tree.GetStart());                                      *)
(*   for (visited = 1; visitor.CanMoveNext(); ++visited) visitor.MoveNext() *)

TravFind ==
    /\ tree.alive /\ IsInitialized(tree) /\ ~trav.active
    /\ heap.next <= MaxAllocs
    /\ \E f \in {Find(tree, visitor, heap, storage, tree.start_offset)} :
           visitor' = f.visitor /\ heap' = f.heap /\ lastResult' = f.result
    /\ trav' = [active |-> TRUE, visited |-> 1]
    /\ lastOp' = [op |-> "Find", va |-> tree.start_offset]
    /\ UNCHANGED <<geom, info, bufs, storage, tree, assertFailed>>

TravMoveNext ==
    /\ trav.active /\ CanMoveNext(visitor)
    /\ \E m \in {MoveNext(visitor, storage)} : visitor' = m.visitor /\ lastResult' = m.result
    /\ trav' = [trav EXCEPT !.visited = @ + 1]
    /\ lastOp' = [op |-> "MoveNext"]
    /\ UNCHANGED <<geom, info, bufs, heap, storage, tree, assertFailed>>

NextTraverse == TreeInitialize \/ TravFind \/ TravMoveNext

SpecTraverse == InitFind /\ [][NextTraverse]_vars

----------------------------------------------------------------------------
(* Geometry claims (SpecGeom). *)

\* The geometry members of a tree with the geometry of the query in geom.
GeomTree ==
    [TreeInit EXCEPT
        !.node_size = geom.node_size, !.entry_size = geom.entry_size,
        !.entry_count = geom.entry_count,
        !.offset_count = GetOffsetCount(geom.node_size),
        !.entry_set_count = GetEntrySetCount(geom.node_size, geom.entry_size, geom.entry_count),
        !.l1 = [index |-> 0,
                count |-> GetNodeL2Count(geom.node_size, geom.entry_size, geom.entry_count),
                offset |-> 0]]

TwoTierScenarioQueried ==
    /\ geom.node_size = 1024 /\ geom.entry_size = 16 /\ geom.entry_count = 10000
    /\ geom.queried = "node"

\* C4 as stated: for node_size = 1024, entry_size = 16, entry_count = 10000 there are
\* 159 entry sets, 63 offsets a node, an L2 tier, and 3 L2 nodes (by GetNodeL2Count and
\* by QueryNodeStorageSize / node_size - 1).
C4_GeometryAsStated ==
    TwoTierScenarioQueried =>
        /\ GeomTree.entry_set_count = 159
        /\ GeomTree.offset_count = 63
        /\ IsExistL2(GeomTree)
        /\ GetNodeL2Count(geom.node_size, geom.entry_size, geom.entry_count) = 3
        /\ geom.result \div geom.node_size - 1 = 3

\* C4 amended: for those inputs there are 159 entry sets, 126 offsets a node, an L2
\* tier, and 1 L2 node (by GetNodeL2Count and by QueryNodeStorageSize / node_size - 1).
C4_GeometryOfScenario ==
    TwoTierScenarioQueried =>
        /\ GeomTree.entry_set_count = 159
        /\ GeomTree.offset_count = 126
        /\ IsExistL2(GeomTree)
        /\ GetNodeL2Count(geom.node_size, geom.entry_size, geom.entry_count) = 1
        /\ geom.result \div geom.node_size - 1 = 1

C4_Witness == TwoTierScenarioQueried /\ geom.result = 2048

\* C10: for entry_count >= 1 and ceil(E / O) <= O, GetNodeL2Count is 0 exactly when
\* E <= O, exactly when IsExistL2() is false; when E > O it is an L in 1..O with
\* (O - L) + L * O >= E, every entry-set index in [0, E) is an inline slot (below
\* O - L) or GetEntrySetIndex(node_index, offset_index) of one pair with
\* node_index < L and offset_index < O, and no pair lands on an inline slot or on the
\* index of another pair.
C10_L2TierSufficient ==
    LET O == GeomTree.offset_count
        E == GeomTree.entry_set_count
        L == GetNodeL2Count(geom.node_size, geom.entry_size, geom.entry_count)
    IN  (geom.queried = "node" /\ geom.entry_count >= 1 /\ DivideUp(E, O) <= O) =>
            /\ geom.result = (1 + L) * geom.node_size
            /\ (L = 0) <=> (E <= O)
            /\ (L = 0) <=> ~IsExistL2(GeomTree)
            /\ E > O =>
                /\ 1 <= L /\ L <= O
                /\ (O - L) + L * O >= E
                /\ \A i \in 0..(E - 1) :
                       \/ i < O - L
                       \/ /\ (i - (O - L)) \div O < L
                          /\ GetEntrySetIndex(GeomTree, (i - (O - L)) \div O, (i - (O - L)) % O) = i
                /\ \A node_index \in 0..(L - 1), offset_index \in 0..(O - 1) :
                       LET i == GetEntrySetIndex(GeomTree, node_index, offset_index)
                       IN  /\ i >= O - L
                           /\ (i - (O - L)) \div O = node_index
                           /\ (i - (O - L)) % O = offset_index

\* An L2 tier of two nodes that is needed in full: 124 inline slots and one L2 node
\* reach 250 entry sets, and there are 252.
C10_Witness ==
    /\ geom.queried = "node" /\ geom.node_size = 1024
    /\ GeomTree.entry_set_count = 252
    /\ geom.result = 3 * geom.node_size

----------------------------------------------------------------------------
(* ContinuousReadingInfo claim (SpecInfo). *)

\* C9: CheckNeedScan decrements skip_count by one, returns whether the new value is
\* <= 0 and leaves read_size and done alone; so the k-th call after SetSkipCount(n)
\* returns false for k < n and true from k = n on, and the first call after
\* SetSkipCount(0), Reset() or the constructor returns true.
C9_SkipCountdown ==
    /\ [](lastOp.op = "CheckNeedScan" => lastResult = (info.calls >= info.n))
    /\ [][lastOp'.op = "CheckNeedScan" =>
            /\ info'.m.skip_count = info.m.skip_count - 1
            /\ lastResult' = (info'.m.skip_count <= 0)
            /\ info'.m.read_size = info.m.read_size
            /\ info'.m.done = info.m.done]_vars

C9_Witness ==
    /\ lastOp.op = "CheckNeedScan" /\ info.n = 3 /\ info.calls = 5
    /\ lastResult = TRUE /\ info.m.skip_count < 0

----------------------------------------------------------------------------
(* NodeBuffer claim (SpecBuf). *)

\* C5: a move construction leaves the new buffer with the header and the allocator the
\* source had and the source with a null header; every block is deallocated at most
\* once and every Deallocate call names a block, through its allocator.
C5_MoveTransfersOwnership ==
    /\ [][lastOp'.op = "MoveConstruct" =>
            /\ bufs'[lastOp'.this].nb.header = bufs[lastOp'.rhs].nb.header
            /\ bufs'[lastOp'.this].nb.allocator = bufs[lastOp'.rhs].nb.allocator
            /\ bufs'[lastOp'.rhs].nb.header = Null]_vars
    /\ [](/\ heap.bad = {}
          /\ \A i \in 1..Len(heap.blocks) : heap.blocks[i].frees <= 1)

----------------------------------------------------------------------------
(* Lookup and cursor claims (SpecFind, SpecTraverse). *)

\* The end of the range of entry k: the start of entry k + 1, or the end of the last leaf.
EntryEnd(s, k) ==
    IF k + 1 < s.entry_count THEN EntryStart(s, k + 1)
    ELSE EntrySetInfo(s, StorageEntrySetCount(s) - 1).end

\* C1: on an initialized non-empty tree, Find(visitor, va) with start_offset <= va <
\* end_offset succeeds and leaves the visitor on the one entry whose range holds va.
C1_FindCoverage ==
    (lastOp.op = "Find" /\ Includes(tree, lastOp.va)) =>
        /\ lastResult = "Success"
        /\ IsValid(visitor)
        /\ visitor.entry_set.index \in 0..(tree.entry_set_count - 1)
        /\ visitor.entry_set = EntrySetInfo(storage, visitor.entry_set.index)
        /\ visitor.entry_index < visitor.entry_set.count
        /\ { k \in 0..(storage.entry_count - 1) :
                EntryStart(storage, k) <= lastOp.va /\ lastOp.va < EntryEnd(storage, k) }
           = { EntryNumber(visitor, storage) }

\* A lookup that went through the second L2 node.
C1_Witness ==
    /\ lastOp.op = "Find" /\ lastResult = "Success" /\ IsExistOffsetL2OnL1(tree)
    /\ visitor.entry_set.index = GetEntrySetIndex(tree, 1, 1)

\* C3: a visitor with entry_index = -1 is not valid and can move neither way; a valid
\* visitor is valid after MoveNext and MovePrevious, which fail with OutOfRange and move
\* nothing when CanMoveNext(), CanMovePrevious() is false; a valid visitor cannot move
\* next exactly on the last entry of the tree, nor back exactly on the first.
C3_CursorEnds ==
    /\ [](visitor.entry_index = -1 =>
            ~IsValid(visitor) /\ ~CanMoveNext(visitor) /\ ~CanMovePrevious(visitor))
    /\ [](IsValid(visitor) =>
            /\ ~CanMoveNext(visitor) <=>
                   EntryNumber(visitor, storage) = storage.entry_count - 1
            /\ ~CanMovePrevious(visitor) <=>
                   (visitor.entry_set.index = 0 /\ visitor.entry_index = 0))
    /\ [][(IsValid(visitor) /\ lastOp'.op \in {"MoveNext", "MovePrevious"}) =>
            /\ IsValid(visitor')
            /\ (lastOp'.op = "MoveNext" /\ ~CanMoveNext(visitor)) =>
                   (lastResult' = "OutOfRange" /\ visitor' = visitor)
            /\ (lastOp'.op = "MovePrevious" /\ ~CanMovePrevious(visitor)) =>
                   (lastResult' = "OutOfRange" /\ visitor' = visitor)]_vars

\* MoveNext called on the last entry of a tree with several entry sets.
C3_Witness ==
    /\ lastOp.op = "MoveNext" /\ lastResult = "OutOfRange" /\ IsValid(visitor)
    /\ visitor.entry_set.index > 0

\* C2: the loop that starts at Find(start_offset) and calls MoveNext while
\* CanMoveNext() is on entry number visited - 1 after each call, ends after exactly
\* entry_count entries, and each MoveNext reaches a greater start offset: the next
\* entry of the same entry set, or entry 0 of the next set when the set is exhausted.
C2_MonotonicTraversal ==
    /\ [](trav.active =>
            /\ EntryNumber(visitor, storage) = trav.visited - 1
            /\ ~CanMoveNext(visitor) => trav.visited = tree.entry_count)
    /\ [][(trav.active /\ lastOp'.op = "MoveNext") =>
            /\ lastResult' = "Success"
            /\ EntryOffset(visitor', storage) > EntryOffset(visitor, storage)
            /\ IF visitor.entry_index + 1 < visitor.entry_set.count
               THEN /\ visitor'.entry_index = visitor.entry_index + 1
                    /\ visitor'.entry_set.index = visitor.entry_set.index
               ELSE /\ visitor'.entry_index = 0
                    /\ visitor'.entry_set.index = visitor.entry_set.index + 1]_vars

\* The loop ended on a tree with an L2 tier.
C2_Witness ==
    /\ trav.active /\ ~CanMoveNext(visitor) /\ IsExistL2(tree)
    /\ trav.visited = WithL2Entries

----------------------------------------------------------------------------
(* Lifetime claims (Spec). *)

\* C6: from every state of a tree, Finalize() twice leaves what Finalize() once
\* leaves, the tree is then not initialized and its L1 block has been deallocated once;
\* ~BucketTree() reaches ~NodeBuffer() with a null header.
C6_FinalizeIdempotent ==
    /\ tree.alive =>
          LET once  == Finalize(tree, heap)
              twice == Finalize(once.tree, once.heap)
          IN  /\ twice = once
              /\ ~IsInitialized(once.tree)
              /\ once.tree.node_l1.header = Null
              /\ tree.node_l1.header # Null =>
                     twice.heap.blocks[tree.node_l1.header[2]].frees = 1
    /\ \A i \in 1..Len(heap.blocks) :
          heap.blocks[i].size = storage.node_size => heap.blocks[i].frees <= 1
    /\ ~assertFailed
    /\ lastOp.op = "TreeDestroy" => tree.node_l1.header = Null

\* The destructor ran on a tree that an explicit Finalize() had released before.
C6_Witness ==
    /\ lastOp.op = "TreeDestroy" /\ ~lastOp.initialized
    /\ \E i \in 1..Len(heap.blocks) :
          heap.blocks[i].size = storage.node_size /\ heap.blocks[i].frees = 1

\* C7: after Initialize(node_size, end_offset) the tree is initialized and empty, and
\* Find on such a tree returns OutOfRange for every address, allocates nothing and
\* leaves the visitor as it was.
C7_EmptyTreeLookups ==
    /\ [](lastOp.op = "InitializeEmpty" => IsInitialized(tree) /\ IsEmpty(tree))
    /\ [][(lastOp'.op = "Find" /\ tree.node_size > 0 /\ tree.entry_size = 0) =>
            /\ lastResult' = "OutOfRange"
            /\ heap' = heap
            /\ visitor' = visitor]_vars

\* A lookup of a covered address on an empty tree, with a visitor that was never used.
C7_Witness ==
    /\ lastOp.op = "Find" /\ tree.node_size > 0 /\ tree.entry_size = 0
    /\ Includes(tree, lastOp.va) /\ lastResult = "OutOfRange"
    /\ visitor.entry = Null /\ ~IsValid(visitor)

\* C8: while the tree object exists, whether initialized or finalized, every
\* Deallocate call has named a block, through the allocator and with the size the block
\* was allocated with (so none went through a null allocator or with size 0); no block
\* is deallocated twice; and a visitor that held a buffer has had it deallocated once
\* when it is destroyed.
C8_VisitorBufferReleasedOnce ==
    tree.alive =>
        /\ heap.bad = {}
        /\ \A i \in 1..Len(heap.blocks) : heap.blocks[i].frees <= 1
        /\ (lastOp.op = "VisitorDestroy" /\ lastOp.entry # Null) =>
               heap.blocks[lastOp.entry[2]].frees = 1

====
